---- MODULE Spec2Model ----
(***************************************************************************)
(* Model of the agent reasoning loop of intelligent-rag-agent              *)
(* (backend/app/core/graph.py, core/agents.py, core/state.py,              *)
(* services/sql_service.py, api/v1/routes.py).                             *)
(*                                                                         *)
(* Spec     : one conversation driven through the compiled LangGraph graph *)
(*            (agent node, should_continue router, ToolNode).              *)
(* LiveSpec : Spec plus weak fairness of the two graph nodes.              *)
(* SqlSpec  : the SQL tool, execute_query, the schema fetch and the        *)
(*            analytics endpoint on inputs drawn from bounded sets.        *)
(* QuerySpec: one POST /agent/query request from validation to response,   *)
(*            with the loop of Spec in between.                            *)
(* ConcSpec : two such requests interleaved on one event loop.             *)
(* KbSpec   : the knowledge-base tool applied to lists of documents.       *)
(* GatherSpec: the tools node at the granularity of its sibling tasks.     *)
(* CapSpec  : runs of the loop up to the step limit of the graph runner.   *)
(* HangSpec : the loop with a tool call that never returns.                *)
(***************************************************************************)
EXTENDS Integers, Sequences, FiniteSets, TLC

\* ------------------------------------------------------------------ bounds
\* Largest number of AgentTurns at which the model may still request tools.
MaxTurns == 2
\* Largest number of tool requests in one assistant message.
MaxCalls == 2
\* Largest number of tokens in the text the SQL-generating model returns.
MaxTextLen == 3
\* Largest number of messages of a conversation when two queries interleave.
MaxConcLen == 4

\* --------------------------------------------------------------- constants
\* results[:100] in execute_query
ResultCap == 100
\* result['results'][:10] in sql_query_generator
ShowRows == 10
\* Settings.similarity_search_k: the largest number of documents a search returns
similarity_search_k == 4
\* agent_graph.ainvoke(initial_state) is called without a config, so the
\* graph runner applies its default limit on the number of node steps of a run
recursion_limit == 25

VARIABLES
    messages,          \* AgentState.messages of the conversation
    tool_calls_made,   \* AgentState.tool_calls_made
    pc,                \* node the graph runs next: "agent", "tools", "END", or "raised";
                       \* in QuerySpec also the request's stage: "received" before,
                       \* "rejected", "responded", "failed" after
    trace,             \* nodes run so far, in order (history)
    toolLog,           \* returns/raises of the tool functions run in the last ToolNode step
    nextId,            \* next fresh identifier (message ids, tool-call ids)
    handle_tool_errors,\* ToolNode default of the installed langgraph: catch every tool exception or not
    sqlPc,             \* SqlSpec: "ready" before the call, the operation called after it
    sqlIn,             \* SqlSpec: the inputs of the call
    sqlOut,            \* SqlSpec: what the call returned or raised, and its effects
    request,           \* the body of the POST /agent/query request
    response,          \* the HTTP response of the query operation, NoResponse before it
    exc,               \* the exception that ended get_agent_graph() or ainvoke, "none" otherwise
    agent_graph,       \* graph.py, the module global _agent_graph: "None" or "compiled"
    agent_queries,     \* number of rows the application has written to table agent_queries
    parked,            \* ConcSpec: the locals of the query coroutine that is not running
    kbPc,              \* KbSpec: "ready" before the call of search_knowledge_base, "done" after it
    kbIn,              \* KbSpec: what the vector store gives the call
    kbOut,             \* KbSpec: what the call returned or raised
    tasks,             \* GatherSpec: the sibling tool executions of the running ToolNode step
    settings,          \* the Settings in force for the process
    graph_tools,       \* the tools bound to the model and those of the ToolNode of the built graph
    open_connections   \* database connections opened and not yet closed

loopVars == <<messages, tool_calls_made, pc, trace, toolLog, nextId, handle_tool_errors>>
sqlVars == <<sqlPc, sqlIn, sqlOut>>
httpVars == <<request, response, exc, agent_graph, agent_queries, parked>>
kbVars == <<kbPc, kbIn, kbOut>>
vars == <<messages, tool_calls_made, pc, trace, toolLog, nextId, handle_tool_errors,
          sqlPc, sqlIn, sqlOut, request, response, exc, agent_graph, agent_queries, parked,
          kbPc, kbIn, kbOut, tasks, settings, graph_tools, open_connections>>

Last(s) == s[Len(s)]

Min(a, b) == IF a < b THEN a ELSE b

\* ------------------------------------------------------------- Tool Set
\* get_tools(): the ordered list of registered tools.
get_tools == <<"search_knowledge_base", "search_web", "sql_query_generator">>

Range(s) == {s[i] : i \in 1..Len(s)}

\* Settings: the flag sql_tool_enabled of config.py.
Settings == [sql_tool_enabled : BOOLEAN]

\* No graph has been built.
NoTools == [llm_tools |-> <<>>, node_tools |-> <<>>]

\* create_intelligent_agent with the SQL tool described to the model only
\* when it is enabled.
create_intelligent_agent_flagged(s) ==
    [llm_tools |-> IF s.sql_tool_enabled THEN get_tools ELSE SubSeq(get_tools, 1, 2),
     node_tools |-> get_tools]

\* graph.py, create_intelligent_agent: tools = get_tools() is bound to the
\* model by get_llm_with_tools(tools), and get_tool_node() builds
\* ToolNode(get_tools()); no setting is consulted.
create_intelligent_agent(s) == [llm_tools |-> get_tools, node_tools |-> get_tools]

\* Names a model response can carry: the registered ones and one that is not.
ToolNames == Range(get_tools) \cup {"unknown_tool"}

\* User text of the query request.
Queries == {"q1"}

\* ------------------------------------------------------------ SQL text
\* The text returned by the SQL-generating model, as a sequence of tokens:
\* whitespace, the two code-fence forms, keywords in upper and lower case,
\* a destructive statement and the statement separator.  fence_sql is the
\* opening code fence with its language tag, fence the bare code fence.
Tok == {"ws", "fence_sql", "fence", "SELECT", "select", "DROP", ";"}

RECURSIVE SeqsUpTo(_, _)
SeqsUpTo(S, n) ==
    IF n = 0 THEN {<<>>}
    ELSE LET shorter == SeqsUpTo(S, n - 1)
         IN  shorter \cup {Append(t, x) : t \in {u \in shorter : Len(u) = n - 1}, x \in S}

Texts == SeqsUpTo(Tok, MaxTextLen)

\* str.strip(): drop leading and trailing whitespace.
RECURSIVE lstrip(_)
lstrip(t) == IF t # <<>> /\ Head(t) = "ws" THEN lstrip(Tail(t)) ELSE t

RECURSIVE rstrip(_)
rstrip(t) == IF t # <<>> /\ Last(t) = "ws" THEN rstrip(SubSeq(t, 1, Len(t) - 1)) ELSE t

strip(t) == rstrip(lstrip(t))

\* str.replace(old, empty string): drop every occurrence of the token.
replace(t, old) == SelectSeq(t, LAMBDA x : x # old)

\* str.upper() on the first token is all startswith needs.
upper(x) == IF x = "select" THEN "SELECT" ELSE x

startswith_SELECT(t) == t # <<>> /\ upper(Head(t)) = "SELECT"

\* agents.py: response.content.strip(), then the two replace calls, then strip().
clean_sql(content) == strip(replace(replace(strip(content), "fence_sql"), "fence"))

\* The statements of a text: the maximal runs of tokens between separators.
RECURSIVE Statements(_, _)
Statements(t, cur) ==
    IF t = <<>> THEN <<cur>>
    ELSE IF Head(t) = ";" THEN <<cur>> \o Statements(Tail(t), <<>>)
    ELSE Statements(Tail(t), Append(cur, Head(t)))

\* A text all of whose non-blank statements begin with SELECT.
OnlySelectStatements(t) ==
    \A i \in 1..Len(Statements(t, <<>>)) :
        LET st == strip(Statements(t, <<>>)[i])
        IN  st # <<>> => startswith_SELECT(st)

\* ------------------------------------------------------- SQL service
\* Attributes of an SQLService instance: what __init__ sets and the methods
\* defined inside the class body.  execute_query is defined at module level
\* (column 0), so it is not among them.
SQLService == [cls |-> "SQLService",
               attrs |-> {"setting", "_connection_pool", "get_connection", "get_shema_info"}]

\* Another object that can be passed as self to the module-level function
\* execute_query: it carries the two attributes the function body reads.
SettingsHolder == [cls |-> "SettingsHolder", attrs |-> {"settings", "get_connection"}]

\* The service object the tests of the SQL tool put in place of
\* get_sql_service(): it has the two methods the tool calls, and here its
\* execute_query is the module-level function of sql_service.py.
MockSQLService == [cls |-> "MockSQLService",
                   attrs |-> {"settings", "get_connection", "get_schema_info", "execute_query"}]

hasattr(obj, a) == a \in obj.attrs

\* Row counts a query can return.
RowCounts == {0, 1, 10, 11, 100, 101, 123}

\* The target database as one call sees it.
DbEnvs == [url : BOOLEAN, connectOK : BOOLEAN, fetchOK : BOOLEAN, nrows : RowCounts]

\* get_connection: ValueError without a configured URL, else asyncpg.connect.
get_connection(db) ==
    IF ~db.url THEN "ValueError"
    ELSE IF ~db.connectOK THEN "ConnectError"
    ELSE "conn"

\* What execute_query returns or raises, and what it did to the database.
QResult(raised, kind, query, row_count, results, opened, closed, fetched) ==
    [raised |-> raised, kind |-> kind, query |-> query, row_count |-> row_count,
     results |-> results, opened |-> opened, closed |-> closed, fetched |-> fetched]

\* conn.fetch(sql_query): the rows of the answer in the database's order,
\* row i being the i-th of them.
fetch(db) == [i \in 1..db.nrows |-> i]

\* truncate keeping the last rows instead of the first.
truncate_tail(results) ==
    SubSeq(results, Len(results) - Min(Len(results), ResultCap) + 1, Len(results))

\* results[:100]
truncate(results) == SubSeq(results, 1, Min(Len(results), ResultCap))

\* sql_service.py, module-level function execute_query(self, sql_query).
\* row_count is len(results) before the slice.
execute_query(self, sql_query, read_only, db) ==
    IF ~hasattr(self, "settings")
    THEN QResult(TRUE, "AttributeError", sql_query, 0, <<>>, 0, 0, <<>>)
    ELSE IF read_only /\ ~startswith_SELECT(strip(sql_query))
    THEN QResult(FALSE, "policy_error", sql_query, 0, <<>>, 0, 0, <<>>)
    ELSE IF get_connection(db) # "conn"
    THEN QResult(TRUE, get_connection(db), sql_query, 0, <<>>, 0, 0, <<>>)
    ELSE IF ~db.fetchOK
    THEN QResult(FALSE, "fetch_error", sql_query, 0, <<>>, 1, 1, <<sql_query>>)
    ELSE QResult(FALSE, "success", sql_query, Len(fetch(db)), truncate(fetch(db)),
                 1, 1, <<sql_query>>)

\* sql_service.py, SQLService.get_shema_info: the connection is acquired
\* before the try block; the statements run inside try, and finally closes
\* the connection whether they return or raise.
get_shema_info(self, db) ==
    IF get_connection(db) # "conn"
    THEN QResult(TRUE, get_connection(db), <<>>, 0, <<>>, 0, 0, <<>>)
    ELSE IF ~db.fetchOK
    THEN QResult(TRUE, "fetch_error", <<>>, 0, <<>>, 1, 1, <<"tables">>)
    ELSE QResult(FALSE, "success", <<>>, 0, <<>>, 1, 1, <<"tables", "columns">>)

\* The application database as one call of the analytics endpoint sees it.
AnalyticsDbs == [connectOK : BOOLEAN, fetchOK : BOOLEAN]

\* What the analytics endpoint answers and what it did to the database.
AResult(raised, status, opened, closed) ==
    [raised |-> raised, status |-> status, opened |-> opened, closed |-> closed]

\* get_analytics closing the connection at the end of the try block only.
get_analytics_no_finally(db) ==
    IF ~db.connectOK THEN AResult(TRUE, 500, 0, 0)
    ELSE IF ~db.fetchOK THEN AResult(TRUE, 500, 1, 0)
    ELSE AResult(FALSE, 200, 1, 1)

\* routes.py, get_analytics: get_db_connection() is awaited before the try
\* block (a refused connection escapes as the framework's 500); a failing
\* statement is turned into HTTPException(500); finally closes the connection.
get_analytics(db) ==
    IF ~db.connectOK THEN AResult(TRUE, 500, 0, 0)
    ELSE IF ~db.fetchOK THEN AResult(TRUE, 500, 1, 1)
    ELSE AResult(FALSE, 200, 1, 1)

\* What the SQL tool returns (or raises) and its effects.
TResult(raised, kind, detail, query, row_count, shown, more, opened, closed, fetched) ==
    [raised |-> raised, kind |-> kind, detail |-> detail, query |-> query,
     row_count |-> row_count, shown |-> shown, more |-> more,
     opened |-> opened, closed |-> closed, fetched |-> fetched]

\* "Error in SQL query generation: {e}" from the except clause.
GenError(e, opened, closed, fetched) ==
    TResult(FALSE, "generation_error", e, <<>>, 0, <<>>, 0, opened, closed, fetched)

\* format_result with the row count taken from the retained rows instead of
\* the row_count field.
format_result_retained(result) ==
    TResult(FALSE, "success",
            IF Len(result.results) > 0 THEN "Results:" ELSE "No results found.",
            result.query, Len(result.results),
            [i \in 1..Min(Len(result.results), ShowRows) |-> [no |-> i, row |-> result.results[i]]],
            IF Len(result.results) > ShowRows THEN Len(result.results) - ShowRows ELSE 0,
            result.opened, result.closed, result.fetched)

\* agents.py, sql_query_generator, the text built after a successful
\* execution.  row_count is the "Rows returned" number; detail is the heading
\* of the body ("Results:" when result['results'] is non-empty, else
\* "No results found."); shown are the numbered lines of
\* enumerate(result['results'][:10], 1), row i being the i-th fetched row;
\* more is the number in the "... and N more rows" suffix, 0 for no suffix.
format_result(result) ==
    TResult(FALSE, "success",
            IF Len(result.results) > 0 THEN "Results:" ELSE "No results found.",
            result.query, result.row_count,
            [i \in 1..Min(Len(result.results), ShowRows) |-> [no |-> i, row |-> result.results[i]]],
            IF result.row_count > ShowRows THEN result.row_count - ShowRows ELSE 0,
            result.opened, result.closed, result.fetched)

\* Phases of the SQL tool in which the environment can fail.
SqlFailures == {"none", "get_sql_service", "get_llm", "ainvoke"}

\* sql_query_generator with get_sql_service() and get_llm() called before the
\* try block: their failure escapes the tool.
sql_query_generator_late_try(svc, fail, content, read_only, db) ==
    IF fail \in {"get_sql_service", "get_llm"}
    THEN TResult(TRUE, "raised", "ServiceError", <<>>, 0, <<>>, 0, 0, 0, <<>>)
    ELSE IF ~hasattr(svc, "get_schema_info") THEN GenError("AttributeError", 0, 0, <<>>)
    ELSE IF fail = "ainvoke" THEN GenError("LLMError", 0, 0, <<>>)
    ELSE GenError("AttributeError", 0, 0, <<>>)

\* agents.py, sql_query_generator: the whole body runs inside try/except Exception.
sql_query_generator(svc, fail, content, read_only, db) ==
    IF fail = "get_sql_service" THEN GenError("ServiceError", 0, 0, <<>>)
    ELSE IF fail = "get_llm" THEN GenError("LLMError", 0, 0, <<>>)
    ELSE IF ~hasattr(svc, "get_schema_info") THEN GenError("AttributeError", 0, 0, <<>>)
    ELSE IF fail = "ainvoke" THEN GenError("LLMError", 0, 0, <<>>)
    ELSE IF ~hasattr(svc, "execute_query") THEN GenError("AttributeError", 0, 0, <<>>)
    ELSE LET result == execute_query(svc, clean_sql(content), read_only, db)
         IN  IF result.raised
             THEN GenError(result.kind, result.opened, result.closed, result.fetched)
             ELSE IF result.kind # "success"
             THEN TResult(FALSE, "execution_error", result.kind, result.query, 0, <<>>, 0,
                          result.opened, result.closed, result.fetched)
             ELSE format_result(result)

\* ------------------------------------------------------------ messages
\* A message of the conversation.  type is the message class (SystemMessage,
\* HumanMessage, AIMessage, ToolMessage); tool_calls is only meaningful on an
\* AIMessage and tool_call_id, name and status only on a ToolMessage.
Msg(type, id, content, tool_calls, tool_call_id, name, status) ==
    [type |-> type, id |-> id, content |-> content, tool_calls |-> tool_calls,
     tool_call_id |-> tool_call_id, name |-> name, status |-> status]

\* prompts.py, get_system_message
get_system_message(id) == Msg("system", id, "SYSTEM_PROMPT", <<>>, 0, "none", "none")

HumanMessage(id, text) == Msg("human", id, text, <<>>, 0, "none", "none")

AIMessage(id, calls) == Msg("ai", id, "text" \o ToString(id), calls, 0, "none", "none")

ToolMessage(id, content, call, status) ==
    Msg("tool", id, content, <<>>, call.id, call.name, status)

\* add_messages as a channel without reducer: the update replaces the value.
add_messages_overwrite(left, right) == right

\* state.py, AgentState.messages is reduced with add_messages: a message of
\* the update whose id equals the id of a message already in the list replaces
\* it in place, every other message is appended (once per id, in the order of
\* first occurrence, with the content of the last occurrence).
add_messages(left, right) ==
    LET leftIds == {left[i].id : i \in 1..Len(left)}
        lastWith(id) ==
            right[CHOOSE j \in 1..Len(right) :
                    right[j].id = id /\ \A k \in (j + 1)..Len(right) : right[k].id # id]
        merged == [i \in 1..Len(left) |->
                    IF \E j \in 1..Len(right) : right[j].id = left[i].id
                    THEN lastWith(left[i].id) ELSE left[i]]
        idx == SelectSeq([j \in 1..Len(right) |-> j],
                         LAMBDA j : /\ right[j].id \notin leftIds
                                    /\ \A k \in 1..(j - 1) : right[k].id # right[j].id)
    IN  merged \o [n \in 1..Len(idx) |-> lastWith(right[idx[n]].id)]

\* ------------------------------------------------------------ tools
\* What the vector store gives one knowledge-base search inside the loop: a
\* failure, or documents.
KbEnvs == {"fail", "docs1"}

\* What the search provider gives one web search.
WebEnvs == {"fail", "hits"}

\* What the SQL tool meets inside the loop: the failure phase (the service
\* object is the real SQLService).
SqlLoopEnvs == {"none"}

ToolReturn(raised, content) == [raised |-> raised, content |-> content]

\* Metadata of a stored chunk: with the key filename, or without it.
Metadatas == {[filename |-> "a.pdf"], [filename |-> "b.pdf"], [doc_id |-> "d1"]}

\* Documents the vector store can return, and the lists of up to
\* similarity_search_k of them.
Documents == [metadata : Metadatas, page_content : {"c1", "c2"}]

DocLists == SeqsUpTo(Documents, similarity_search_k)

\* metadata_get with None for a missing key.
metadata_get_none(md, key, default) == IF key \in DOMAIN md THEN md[key] ELSE "None"

\* dict.get(key, default)
metadata_get(md, key, default) == IF key \in DOMAIN md THEN md[key] ELSE default

\* agents.py, search_knowledge_base, the text returned for the documents docs:
\* the sentinel for none, else the heading and one entry "Document {i+1}
\* (from {filename}): {page_content}" per document, i counting from 0.
format_docs(docs) ==
    IF docs = <<>>
    THEN [text |-> "No relevant documents found in knowledge base.", entries |-> <<>>]
    ELSE [text |-> "Knowledge Base Results",
          entries |-> [n \in 1..Len(docs) |->
                        [no |-> (n - 1) + 1,
                         filename |-> metadata_get(docs[n].metadata, "filename", "unknown"),
                         content |-> docs[n].page_content]]]

\* The documents behind the environments of the loop.
DocsOf(env) ==
    IF env = "docs0" THEN <<>>
    ELSE <<[metadata |-> [filename |-> "a.pdf"], page_content |-> "c1"]>>

\* agents.py, search_knowledge_base: no try/except around similarity_search.
search_knowledge_base(env) ==
    IF env = "fail" THEN ToolReturn(TRUE, "BackendError")
    ELSE ToolReturn(FALSE, format_docs(DocsOf(env)).text)

\* agents.py, search_web: no try/except around searrch_tool.ainvoke.
search_web(env) ==
    IF env = "fail" THEN ToolReturn(TRUE, "ProviderError")
    ELSE ToolReturn(FALSE, "Web Search Results")

\* The SQL tool as the loop calls it: get_sql_service() gives the SQLService.
sql_tool(env) ==
    LET r == sql_query_generator(SQLService, env, <<"SELECT">>, TRUE,
                                 [url |-> TRUE, connectOK |-> TRUE, fetchOK |-> TRUE, nrows |-> 1])
    IN  ToolReturn(r.raised,
                   IF r.kind = "generation_error" THEN "Error in SQL query generation"
                   ELSE IF r.kind = "execution_error" THEN "Error executing query"
                   ELSE "Query executed successfully")

\* Environments one request of the given tool can meet.
ToolEnvs(name) ==
    IF name = "search_knowledge_base" THEN KbEnvs
    ELSE IF name = "search_web" THEN WebEnvs
    ELSE IF name = "sql_query_generator" THEN SqlLoopEnvs
    ELSE {"none"}

\* The registered tool function run on one environment.
invoke_tool(name, env) ==
    IF name = "search_knowledge_base" THEN search_knowledge_base(env)
    ELSE IF name = "search_web" THEN search_web(env)
    ELSE sql_tool(env)

\* Texts the loop recognises as error text in a tool result.
ErrorTexts == {"Error: not a valid tool", "Error: tool raised",
               "Error in SQL query generation", "Error executing query"}

\* run_one with the result correlated to its own message id instead of the
\* id of the request.
run_one_own_id(call, env, id) ==
    IF call.name \notin Range(get_tools)
    THEN ToolMessage(id, "Error: not a valid tool", [call EXCEPT !.id = id], "error")
    ELSE IF invoke_tool(call.name, env).raised
    THEN ToolMessage(id, "Error: tool raised", [call EXCEPT !.id = id], "error")
    ELSE ToolMessage(id, invoke_tool(call.name, env).content, [call EXCEPT !.id = id], "success")

\* ToolNode, one request: an unregistered name gives an error result; a
\* registered tool is invoked and an exception it raises gives an error result.
run_one(call, env, id) ==
    IF call.name \notin Range(get_tools)
    THEN ToolMessage(id, "Error: not a valid tool", call, "error")
    ELSE IF invoke_tool(call.name, env).raised
    THEN ToolMessage(id, "Error: tool raised", call, "error")
    ELSE ToolMessage(id, invoke_tool(call.name, env).content, call, "success")

\* tool_node with the results in completion order instead of request order
\* (here: the last request first).
tool_node_reversed(calls, envs, firstId) ==
    [i \in 1..Len(calls) |->
        run_one(calls[Len(calls) + 1 - i], envs[Len(calls) + 1 - i], firstId + i - 1)]

\* agents.py, get_tool_node: ToolNode(get_tools()).  The results of the
\* requests of the last assistant message, in request order.
tool_node(calls, envs, firstId) ==
    [i \in 1..Len(calls) |-> run_one(calls[i], envs[i], firstId + i - 1)]

\* Raising with a request of an unregistered name raising as well.
Raising_unknown(calls, envs) ==
    {i \in 1..Len(calls) :
        calls[i].name \notin Range(get_tools) \/ invoke_tool(calls[i].name, envs[i]).raised}

\* Requests of a ToolNode step whose tool function raised.
Raising(calls, envs) ==
    {i \in 1..Len(calls) :
        calls[i].name \in Range(get_tools) /\ invoke_tool(calls[i].name, envs[i]).raised}

\* The tool functions run in a ToolNode step, and what each returned or raised.
ToolLog(calls, envs) ==
    [i \in 1..Len(calls) |->
        IF calls[i].name \in Range(get_tools)
        THEN [name |-> calls[i].name, env |-> envs[i],
              raised |-> invoke_tool(calls[i].name, envs[i]).raised,
              content |-> invoke_tool(calls[i].name, envs[i]).content]
        ELSE [name |-> calls[i].name, env |-> envs[i], raised |-> FALSE,
              content |-> "not dispatched"]]


\* ------------------------------------------------------------ graph
\* should_continue with a router that goes to the tools only for more than one
\* request.
should_continue_many(msgs) ==
    IF Last(msgs).type = "ai" /\ Len(Last(msgs).tool_calls) > 1 THEN "tools" ELSE "end"

\* graph.py, should_continue.  Only an AIMessage has the attribute tool_calls.
should_continue(msgs) ==
    IF Last(msgs).type = "ai" /\ Last(msgs).tool_calls # <<>> THEN "tools" ELSE "end"

\* graph.py, create_intelligent_agent: entry point, conditional edges of the
\* agent node and the edge of the tools node.
entry_point == "agent"

\* conditional_edges with the end branch wired back to the agent node.
conditional_edges_loop == [tools |-> "tools", end |-> "agent"]

conditional_edges == [tools |-> "tools", end |-> "END"]

\* tools_edge with the tools node wired to END.
tools_edge_end == "END"

tools_edge == "agent"

\* Tool requests a model response can carry: up to MaxCalls names.
CallNames == SeqsUpTo(ToolNames, MaxCalls)

\* graph.py, agent: the response of llm_with_tools.ainvoke as a state update.
\* The model adapter gives every response and every request a fresh id.
agent(names, firstId) ==
    <<AIMessage(firstId, [i \in 1..Len(names) |-> [name |-> names[i], id |-> firstId + i]])>>

\* Number of times the agent node has run.  The model may request tools at
\* its first MaxTurns turns only, so no run has more than MaxTurns + 1 of them.
AgentTurns == Len(SelectSeq(trace, LAMBDA n : n = "agent"))

\* initial_state without the system instruction.
initial_state_no_system(q) == <<HumanMessage(2, q)>>

\* routes.py, query_agent: the initial state handed to agent_graph.ainvoke.
initial_state(q) == <<get_system_message(1), HumanMessage(2, q)>>

SqlIdle == [none |-> TRUE]

\* schemas.py, QueryRequest: query is required, session_id defaults to
\* "default".  has_query tells whether the body carries the field query.
QueryRequest(has_query, query, session_id) ==
    [has_query |-> has_query, query |-> query, session_id |-> session_id]

\* No response has been sent yet.
NoResponse == [status |-> 0]

Init ==
    /\ \E q \in Queries : messages = initial_state(q)
    /\ tool_calls_made = 0
    /\ pc = entry_point
    /\ trace = <<>>
    /\ toolLog = <<>>
    /\ nextId = 3
    /\ handle_tool_errors \in BOOLEAN
    /\ sqlPc = "idle"
    /\ sqlIn = SqlIdle
    /\ sqlOut = SqlIdle
    /\ kbPc = "idle"
    /\ kbIn = SqlIdle
    /\ kbOut = SqlIdle
    /\ tasks = SqlIdle
    /\ open_connections = 0
    /\ settings = [sql_tool_enabled |-> TRUE]
    /\ graph_tools = create_intelligent_agent(settings)
    /\ \E q \in Queries : request = QueryRequest(TRUE, q, "default")
    /\ response = NoResponse
    /\ exc = "none"
    /\ agent_graph = "compiled"
    /\ agent_queries = 0
    /\ parked = SqlIdle

\* The agent node runs, the model answers, the router picks the next node.
AgentTurn ==
    /\ pc = "agent"
    /\ AgentTurns <= MaxTurns
    /\ trace' = Append(trace, "agent")
    /\ \E names \in CallNames :
        /\ names # <<>> => AgentTurns < MaxTurns
        /\ nextId' = nextId + 1 + Len(names)
        /\ messages' = add_messages(messages, agent(names, nextId))
    /\ pc' = conditional_edges[should_continue(messages')]
    /\ UNCHANGED <<tool_calls_made, toolLog, handle_tool_errors, sqlVars, kbVars, tasks, httpVars, settings, graph_tools, open_connections>>

\* The agent node runs and the model call raises: ainvoke of the graph raises.
AgentFault ==
    /\ pc = "agent"
    /\ pc' = "raised"
    /\ exc' = "LLMError"
    /\ trace' = Append(trace, "agent")
    /\ UNCHANGED <<messages, tool_calls_made, toolLog, nextId, handle_tool_errors, sqlVars, kbVars, tasks,
                   request, response, agent_graph, agent_queries, parked, settings, graph_tools, open_connections>>

\* The environments the requests of one ToolNode step can meet, one per request.
RECURSIVE EnvSeqs(_)
EnvSeqs(calls) ==
    IF calls = <<>> THEN {<<>>}
    ELSE {<<e>> \o rest : e \in ToolEnvs(Head(calls).name), rest \in EnvSeqs(Tail(calls))}

\* The tools node runs to completion and its results are added to the state.
ToolTurn ==
    /\ pc = "tools"
    /\ pc' = tools_edge
    /\ trace' = Append(trace, "tools")
    /\ LET calls == Last(messages).tool_calls
       IN  \E envs \in EnvSeqs(calls) :
            /\ toolLog' = ToolLog(calls, envs)
            /\ Raising(calls, envs) # {} => handle_tool_errors
            /\ messages' = add_messages(messages, tool_node(calls, envs, nextId))
            /\ nextId' = nextId + Len(calls)
    /\ UNCHANGED <<tool_calls_made, handle_tool_errors, sqlVars, kbVars, tasks, httpVars, settings, graph_tools, open_connections>>

\* The tools node runs, a tool function raises and the ToolNode does not catch
\* it: no state update is written and ainvoke of the graph raises.
ToolFault ==
    /\ pc = "tools"
    /\ pc' = "raised"
    /\ trace' = Append(trace, "tools")
    /\ LET calls == Last(messages).tool_calls
       IN  \E envs \in EnvSeqs(calls) :
            /\ Raising(calls, envs) # {}
            /\ ~handle_tool_errors
            /\ toolLog' = ToolLog(calls, envs)
            /\ \E i \in Raising(calls, envs) :
                    exc' = invoke_tool(calls[i].name, envs[i]).content
    /\ UNCHANGED <<messages, tool_calls_made, nextId, handle_tool_errors, sqlVars, kbVars, tasks,
                   request, response, agent_graph, agent_queries, parked, settings, graph_tools, open_connections>>

Next == AgentTurn \/ AgentFault \/ ToolTurn \/ ToolFault

Spec == Init /\ [][Next]_vars

\* The graph runner runs the node that is due, and model and tool calls return.
LiveSpec == Init /\ [][Next]_vars /\ WF_vars(AgentTurn) /\ WF_vars(ToolTurn)

TypeOK ==
    /\ pc \in {"agent", "tools", "END", "raised"}
    /\ tool_calls_made \in Nat
    /\ nextId \in Nat
    /\ handle_tool_errors \in BOOLEAN

\* ------------------------------------------------- SQL tool on its own
\* Databases one call can meet: no URL configured, connection refused, the
\* query failing in the server, or the query returning n rows.
SqlDbs ==
    {[url |-> FALSE, connectOK |-> TRUE, fetchOK |-> TRUE, nrows |-> 0],
     [url |-> TRUE, connectOK |-> FALSE, fetchOK |-> TRUE, nrows |-> 0],
     [url |-> TRUE, connectOK |-> TRUE, fetchOK |-> FALSE, nrows |-> 0]}
    \cup {[url |-> TRUE, connectOK |-> TRUE, fetchOK |-> TRUE, nrows |-> n] : n \in RowCounts}

SqlInit ==
    /\ messages = initial_state("q1")
    /\ tool_calls_made = 0
    /\ pc = entry_point
    /\ trace = <<>>
    /\ toolLog = <<>>
    /\ nextId = 3
    /\ handle_tool_errors = TRUE
    /\ sqlPc = "ready"
    /\ sqlIn \in [content : Texts, read_only : BOOLEAN, db : SqlDbs]
    /\ sqlOut = SqlIdle
    /\ kbPc = "idle"
    /\ kbIn = SqlIdle
    /\ kbOut = SqlIdle
    /\ tasks = SqlIdle
    /\ open_connections = 0
    /\ settings = [sql_tool_enabled |-> TRUE]
    /\ graph_tools = create_intelligent_agent(settings)
    /\ request = QueryRequest(TRUE, "q1", "default")
    /\ response = NoResponse
    /\ exc = "none"
    /\ agent_graph = "compiled"
    /\ agent_queries = 0
    /\ parked = SqlIdle

\* The SQL tool is invoked; the model returns sqlIn.content as its raw output.
RunSqlTool ==
    /\ sqlPc = "ready"
    /\ \E fail \in SqlFailures :
        sqlOut' = [fail |-> fail, self |-> SQLService,
                   r |-> sql_query_generator(SQLService, fail, sqlIn.content,
                                             sqlIn.read_only, sqlIn.db)]
    /\ open_connections' = open_connections + sqlOut'.r.opened - sqlOut'.r.closed
    /\ sqlPc' = "tool"
    /\ UNCHANGED <<loopVars, sqlIn, httpVars, kbVars, tasks, settings, graph_tools>>

\* The module-level function execute_query is called with sqlIn.content.
CallExecuteQuery ==
    /\ sqlPc = "ready"
    /\ \E self \in {SQLService, SettingsHolder} :
        sqlOut' = [fail |-> "none", self |-> self,
                   r |-> execute_query(self, sqlIn.content, sqlIn.read_only, sqlIn.db)]
    /\ open_connections' = open_connections + sqlOut'.r.opened - sqlOut'.r.closed
    /\ sqlPc' = "direct"
    /\ UNCHANGED <<loopVars, sqlIn, httpVars, kbVars, tasks, settings, graph_tools>>

\* The SQL tool is invoked with get_sql_service() patched to the service
\* double, so that the tool gets past the schema fetch and the execution.
RunSqlToolPatched ==
    /\ sqlPc = "ready"
    /\ \E fail \in SqlFailures :
        sqlOut' = [fail |-> fail, self |-> MockSQLService,
                   r |-> sql_query_generator(MockSQLService, fail, sqlIn.content,
                                             sqlIn.read_only, sqlIn.db)]
    /\ open_connections' = open_connections + sqlOut'.r.opened - sqlOut'.r.closed
    /\ sqlPc' = "patched"
    /\ UNCHANGED <<loopVars, sqlIn, httpVars, kbVars, tasks, settings, graph_tools>>

\* SQLService.get_shema_info is called on the service.
CallGetShemaInfo ==
    /\ sqlPc = "ready"
    /\ sqlOut' = [fail |-> "none", self |-> SQLService, r |-> get_shema_info(SQLService, sqlIn.db)]
    /\ open_connections' = open_connections + sqlOut'.r.opened - sqlOut'.r.closed
    /\ sqlPc' = "schema"
    /\ UNCHANGED <<loopVars, sqlIn, httpVars, kbVars, tasks, settings, graph_tools>>

\* GET /agent/analytics is served; the application database is reachable or
\* not, and its statements succeed or fail.
CallGetAnalytics ==
    /\ sqlPc = "ready"
    /\ \E db \in AnalyticsDbs :
        sqlOut' = [fail |-> "none", self |-> [cls |-> "get_analytics", attrs |-> {}], r |-> get_analytics(db)]
    /\ open_connections' = open_connections + sqlOut'.r.opened - sqlOut'.r.closed
    /\ sqlPc' = "analytics"
    /\ UNCHANGED <<loopVars, sqlIn, httpVars, kbVars, tasks, settings, graph_tools>>

\* The operation has returned; the next operation on the services starts.
SqlAgain ==
    /\ sqlPc \in {"tool", "direct", "patched", "schema", "analytics"}
    /\ sqlPc' = "ready"
    /\ sqlOut' = SqlIdle
    /\ UNCHANGED <<loopVars, sqlIn, httpVars, kbVars, tasks, settings, graph_tools,
                   open_connections>>

SqlNext ==
    \/ RunSqlTool
    \/ CallExecuteQuery
    \/ RunSqlToolPatched
    \/ CallGetShemaInfo
    \/ CallGetAnalytics
    \/ SqlAgain

SqlSpec == SqlInit /\ [][SqlNext]_vars

\* --------------------------------- sibling tool executions of one step
\* gather with the results in the order of completion.
gather_as_completed(calls, envs, done, firstId) ==
    [k \in 1..Len(done) |-> run_one(calls[done[k]], envs[done[k]], firstId + done[k] - 1)]

\* The ToolNode awaits asyncio.gather over one coroutine per request: the
\* result list has the slot of request i filled by the completion of task i,
\* wherever that completion stands in the order done.
gather(calls, envs, done, firstId) ==
    LET completed == [k \in 1..Len(done) |->
                        run_one(calls[done[k]], envs[done[k]], firstId + done[k] - 1)]
        slot(i) == CHOOSE k \in 1..Len(done) : done[k] = i
    IN  [i \in 1..Len(calls) |-> completed[slot(i)]]

\* The conversation starts as in Spec; no task is running.
GatherInit == Init

\* The model asks for tools at its first turn only.
GatherAgentTurn ==
    /\ AgentTurn
    /\ trace # <<>> => Last(messages').tool_calls = <<>>

\* The tools node starts one task per request of the last assistant message.
StartTools ==
    /\ pc = "tools"
    /\ pc' = "gathering"
    /\ \E envs \in EnvSeqs(Last(messages).tool_calls) : tasks' = [envs |-> envs, done |-> <<>>]
    /\ UNCHANGED <<messages, tool_calls_made, trace, toolLog, nextId, handle_tool_errors,
                   sqlVars, kbVars, httpVars, settings, graph_tools, open_connections>>

\* One of the running tasks finishes; its exception, if any, is turned into
\* an error result by the ToolNode.
FinishTask ==
    /\ pc = "gathering"
    /\ \E i \in (1..Len(Last(messages).tool_calls)) \ Range(tasks.done) :
        /\ i \in Raising(Last(messages).tool_calls, tasks.envs) => handle_tool_errors
        /\ tasks' = [tasks EXCEPT !.done = Append(@, i)]
    /\ UNCHANGED <<loopVars, sqlVars, kbVars, httpVars, settings, graph_tools, open_connections>>

\* One of the running tasks raises and the ToolNode does not catch it:
\* gather raises, no state update is written.
GatherFault ==
    /\ pc = "gathering"
    /\ ~handle_tool_errors
    /\ \E i \in Raising(Last(messages).tool_calls, tasks.envs) \ Range(tasks.done) :
        exc' = invoke_tool(Last(messages).tool_calls[i].name, tasks.envs[i]).content
    /\ pc' = "raised"
    /\ trace' = Append(trace, "tools")
    /\ UNCHANGED <<messages, tool_calls_made, toolLog, nextId, handle_tool_errors,
                   sqlVars, kbVars, request, response, agent_graph, agent_queries, parked, tasks, settings, graph_tools, open_connections>>

\* All tasks have finished: the results are added to the state.
JoinTools ==
    /\ pc = "gathering"
    /\ Range(tasks.done) = 1..Len(Last(messages).tool_calls)
    /\ pc' = tools_edge
    /\ trace' = Append(trace, "tools")
    /\ LET calls == Last(messages).tool_calls
       IN  /\ toolLog' = ToolLog(calls, tasks.envs)
           /\ messages' = add_messages(messages, gather(calls, tasks.envs, tasks.done, nextId))
           /\ nextId' = nextId + Len(calls)
    /\ UNCHANGED <<tool_calls_made, handle_tool_errors, sqlVars, kbVars, httpVars, tasks, settings, graph_tools, open_connections>>

GatherNext ==
    GatherAgentTurn \/ AgentFault \/ StartTools \/ FinishTask \/ GatherFault \/ JoinTools

GatherSpec == GatherInit /\ [][GatherNext]_vars

\* ----------------------------------------------- long runs of the loop
\* out_of_steps with a limit of three steps.
out_of_steps_early(tr) == Len(tr) >= 3

\* The graph runner has run as many node steps as the limit allows.
out_of_steps(tr) == Len(tr) >= recursion_limit

\* Responses of a model that answers, or asks for one tool whose execution
\* has a single outcome.
CapNames == {<<>>, <<"unknown_tool">>, <<"sql_query_generator">>}

\* The conversation starts as in Spec.
CapInit == Init

\* The agent node runs, with no bound on the number of turns at which the
\* model may ask for tools.
CapAgentTurn ==
    /\ pc = "agent"
    /\ ~out_of_steps(trace)
    /\ trace' = Append(trace, "agent")
    /\ \E names \in CapNames :
        /\ nextId' = nextId + 1 + Len(names)
        /\ messages' = add_messages(messages, agent(names, nextId))
    /\ pc' = conditional_edges[should_continue(messages')]
    /\ UNCHANGED <<tool_calls_made, toolLog, handle_tool_errors, sqlVars, kbVars, tasks, httpVars, settings, graph_tools, open_connections>>

CapToolTurn ==
    /\ ~out_of_steps(trace)
    /\ ToolTurn

\* A node is due after the last step the limit allows: the runner raises
\* GraphRecursionError out of ainvoke.
RecursionFault ==
    /\ pc \in {"agent", "tools"}
    /\ out_of_steps(trace)
    /\ pc' = "raised"
    /\ exc' = "GraphRecursionError"
    /\ UNCHANGED <<messages, tool_calls_made, trace, toolLog, nextId, handle_tool_errors,
                   sqlVars, kbVars, tasks, request, response, agent_graph, agent_queries, parked, settings, graph_tools, open_connections>>

CapNext == CapAgentTurn \/ AgentFault \/ CapToolTurn \/ RecursionFault

CapSpec == CapInit /\ [][CapNext]_vars

\* ------------------------------------- knowledge-base tool on its own
KbInit ==
    /\ messages = initial_state("q1")
    /\ tool_calls_made = 0
    /\ pc = entry_point
    /\ trace = <<>>
    /\ toolLog = <<>>
    /\ nextId = 3
    /\ handle_tool_errors = TRUE
    /\ sqlPc = "idle"
    /\ sqlIn = SqlIdle
    /\ sqlOut = SqlIdle
    /\ request = QueryRequest(TRUE, "q1", "default")
    /\ response = NoResponse
    /\ exc = "none"
    /\ agent_graph = "compiled"
    /\ agent_queries = 0
    /\ parked = SqlIdle
    /\ kbPc = "ready"
    /\ kbIn \in [docs : DocLists, backend_ok : BOOLEAN]
    /\ kbOut = SqlIdle
    /\ tasks = SqlIdle
    /\ open_connections = 0
    /\ settings = [sql_tool_enabled |-> TRUE]
    /\ graph_tools = create_intelligent_agent(settings)

\* search_knowledge_base is invoked and the vector store answers with kbIn.
RunKbTool ==
    /\ kbPc = "ready"
    /\ kbOut' = IF kbIn.backend_ok
                THEN [raised |-> FALSE, out |-> format_docs(kbIn.docs)]
                ELSE [raised |-> TRUE, out |-> format_docs(<<>>)]
    /\ kbPc' = "done"
    /\ UNCHANGED <<loopVars, sqlVars, httpVars, kbIn, tasks, settings, graph_tools, open_connections>>

KbNext == RunKbTool

KbSpec == KbInit /\ [][KbNext]_vars

\* ------------------------------------------------ the query operation
\* validate with a body that needs no field.
validate_lenient(req) == TRUE

\* FastAPI parses the body into the handler's parameter request: QueryRequest
\* before it calls query_agent; a body without query fails the validation.
validate(req) == req.has_query

\* schemas.py, QueryResponse, sent with status 200.
QueryResponse(query, answer, tool_used, sources, reasoning_steps) ==
    [status |-> 200, query |-> query, answer |-> answer, tool_used |-> tool_used,
     sources |-> sources, reasoning_steps |-> reasoning_steps]

HTTPException(status_code, detail) == [status |-> status_code, detail |-> detail]

\* add_name without the membership test.
add_name_always(acc, tool_name) == Append(acc, tool_name)

\* routes.py, query_agent: if tool_name not in tool_used: tool_used.append(tool_name)
add_name(acc, tool_name) == IF tool_name \in Range(acc) THEN acc ELSE Append(acc, tool_name)

\* routes.py, query_agent, the inner loop over msg.tool_calls.
RECURSIVE collect_names(_, _)
collect_names(calls, acc) ==
    IF calls = <<>> THEN acc
    ELSE collect_names(Tail(calls), add_name(acc, Head(calls).name))

\* routes.py, query_agent, the loop over messages: only a message that has
\* the attribute tool_calls (an AIMessage) with a non-empty value contributes.
RECURSIVE tool_used(_, _)
tool_used(msgs, acc) ==
    IF msgs = <<>> THEN acc
    ELSE tool_used(Tail(msgs),
                   IF Head(msgs).type = "ai" /\ Head(msgs).tool_calls # <<>>
                   THEN collect_names(Head(msgs).tool_calls, acc) ELSE acc)

\* reasoning_steps as the number of model turns.
reasoning_steps_turns(msgs) == Len(SelectSeq(msgs, LAMBDA m : m.type = "ai"))

\* routes.py, query_agent: len(messages) // 2
reasoning_steps(msgs) == Len(msgs) \div 2

\* on_exception answering with a success that carries what there is.
on_exception_partial(e) == QueryResponse("q1", "partial", <<>>, <<>>, 0)

\* routes.py, query_agent: except Exception as e: raise HTTPException(500, str(e))
on_exception(e) == HTTPException(500, e)

\* Query texts a request can carry.
QueryTexts == {"q1", "q2"}

\* A query request arrives at a process that has not built the graph yet.
QueryInit ==
    /\ messages = <<>>
    /\ tool_calls_made = 0
    /\ pc = "received"
    /\ trace = <<>>
    /\ toolLog = <<>>
    /\ nextId = 3
    /\ handle_tool_errors \in BOOLEAN
    /\ sqlPc = "idle"
    /\ sqlIn = SqlIdle
    /\ sqlOut = SqlIdle
    /\ kbPc = "idle"
    /\ kbIn = SqlIdle
    /\ kbOut = SqlIdle
    /\ tasks = SqlIdle
    /\ open_connections = 0
    /\ settings \in Settings
    /\ graph_tools = NoTools
    /\ request \in {QueryRequest(TRUE, q, "default") : q \in QueryTexts}
                    \cup {QueryRequest(FALSE, "missing", "default")}
    /\ response = NoResponse
    /\ exc = "none"
    /\ agent_graph = "None"
    /\ agent_queries = 0
    /\ parked = SqlIdle

\* The body fails the validation: 422, query_agent is not called.
RejectRequest ==
    /\ pc = "received"
    /\ ~validate(request)
    /\ response' = HTTPException(422, "Field required")
    /\ pc' = "rejected"
    /\ UNCHANGED <<messages, tool_calls_made, trace, toolLog, nextId, handle_tool_errors,
                   sqlVars, kbVars, tasks, request, exc, agent_graph, agent_queries, parked, settings, graph_tools, open_connections>>

\* query_agent up to the start of ainvoke: get_agent_graph() returns the
\* singleton, building it at the first call, and the graph reduces the
\* initial state into its channels.
QueryStart ==
    /\ pc = "received"
    /\ validate(request)
    /\ agent_graph' = "compiled"
    /\ graph_tools' = IF agent_graph = "None" THEN create_intelligent_agent(settings)
                      ELSE graph_tools
    /\ messages' = add_messages(<<>>, initial_state(request.query))
    /\ tool_calls_made' = 0
    /\ pc' = entry_point
    /\ UNCHANGED <<trace, toolLog, nextId, handle_tool_errors, sqlVars, kbVars, tasks,
                   request, response, exc, agent_queries, parked, settings, open_connections>>

\* get_agent_graph() finds no graph and create_intelligent_agent() raises
\* (get_tools, get_llm): the global stays None.
GraphBuildFault ==
    /\ pc = "received"
    /\ validate(request)
    /\ agent_graph = "None"
    /\ exc' = "GraphBuildError"
    /\ pc' = "raised"
    /\ UNCHANGED <<messages, tool_calls_made, trace, toolLog, nextId, handle_tool_errors,
                   sqlVars, kbVars, tasks, request, response, agent_graph, agent_queries, parked, settings, graph_tools, open_connections>>

\* final_answer taken from the first assistant message of the conversation.
final_answer_first_ai(msgs) == msgs[3].content

\* routes.py, query_agent: final_answer = messages[-1].content
final_answer(msgs) == msgs[Len(msgs)].content

\* query_agent after ainvoke has returned: the response is built from the
\* final messages.  Nothing is written to the analytics tables.
QueryRespond ==
    /\ pc = "END"
    /\ response' = QueryResponse(request.query, final_answer(messages),
                                 tool_used(messages, <<>>), <<>>, reasoning_steps(messages))
    /\ pc' = "responded"
    /\ UNCHANGED <<messages, tool_calls_made, trace, toolLog, nextId, handle_tool_errors,
                   sqlVars, kbVars, tasks, request, exc, agent_graph, agent_queries, parked, settings, graph_tools, open_connections>>

\* query_agent, the except clause.
QueryFail ==
    /\ pc = "raised"
    /\ response' = on_exception(exc)
    /\ pc' = "failed"
    /\ UNCHANGED <<messages, tool_calls_made, trace, toolLog, nextId, handle_tool_errors,
                   sqlVars, kbVars, tasks, request, exc, agent_graph, agent_queries, parked, settings, graph_tools, open_connections>>

QueryNext ==
    \/ RejectRequest \/ QueryStart \/ GraphBuildFault
    \/ AgentTurn \/ AgentFault \/ ToolTurn \/ ToolFault
    \/ QueryRespond \/ QueryFail

QuerySpec == QueryInit /\ [][QueryNext]_vars

\* ------------------------------------------- two queries in one process
\* The locals of a query_agent coroutine and the state of its ainvoke call.
Locals(m, t, p, tr, tl, rq, rs, e) ==
    [messages |-> m, tool_calls_made |-> t, pc |-> p, trace |-> tr, toolLog |-> tl,
     request |-> rq, response |-> rs, exc |-> e]

\* The coroutine that is running.
Running == Locals(messages, tool_calls_made, pc, trace, toolLog, request, response, exc)

\* resume_messages with the messages kept in one place for all coroutines.
resume_messages_shared(p) == messages

\* The messages a resumed coroutine works on: those of its own initial_state
\* dict and its own ainvoke call.
resume_messages(p) == p.messages

\* Query texts and session identifiers of the two requests.
ConcQueries == {"q1", "q2"}

SessionIds == {"default", "s1"}

\* Two requests have arrived at a process that has not built the graph yet.
ConcInit ==
    /\ messages = <<>>
    /\ tool_calls_made = 0
    /\ pc = "received"
    /\ trace = <<>>
    /\ toolLog = <<>>
    /\ nextId = 3
    /\ handle_tool_errors \in BOOLEAN
    /\ sqlPc = "idle"
    /\ sqlIn = SqlIdle
    /\ sqlOut = SqlIdle
    /\ kbPc = "idle"
    /\ kbIn = SqlIdle
    /\ kbOut = SqlIdle
    /\ tasks = SqlIdle
    /\ open_connections = 0
    /\ settings = [sql_tool_enabled |-> TRUE]
    /\ graph_tools = NoTools
    /\ request = QueryRequest(TRUE, "q1", "default")
    /\ response = NoResponse
    /\ exc = "none"
    /\ agent_graph = "None"
    /\ agent_queries = 0
    /\ \E rq \in {QueryRequest(TRUE, q, sid) : q \in ConcQueries, sid \in SessionIds}
                    \cup {QueryRequest(FALSE, "missing", "default")} :
        parked = Locals(<<>>, 0, "received", <<>>, <<>>, rq, NoResponse, "none")

\* The event loop suspends the running coroutine at an await, or finds it
\* finished, and resumes the other one, which has not finished.
Switch ==
    /\ parked.pc \notin {"rejected", "responded", "failed"}
    /\ parked' = Running
    /\ messages' = resume_messages(parked)
    /\ tool_calls_made' = parked.tool_calls_made
    /\ pc' = parked.pc
    /\ trace' = parked.trace
    /\ toolLog' = parked.toolLog
    /\ request' = parked.request
    /\ response' = parked.response
    /\ exc' = parked.exc
    /\ UNCHANGED <<nextId, handle_tool_errors, sqlVars, kbVars, tasks, agent_graph, agent_queries, settings, graph_tools, open_connections>>

\* The conversations explored hold at most MaxConcLen messages, and the
\* model asks for one tool at a time.
ConcBounded ==
    /\ Len(messages') <= MaxConcLen
    /\ \A i \in 1..Len(messages') : Len(messages'[i].tool_calls) <= 1

ConcNext ==
    \/ Switch
    \/ RejectRequest
    \/ QueryStart
    \/ GraphBuildFault
    \/ AgentTurn /\ ConcBounded
    \/ AgentFault
    \/ ToolTurn /\ ConcBounded
    \/ ToolFault
    \/ QueryRespond
    \/ QueryFail

ConcSpec == ConcInit /\ [][ConcNext]_vars

\* ================================================================ claims

\* C1: right after an AgentTurn has appended the model's message, the loop is
\* in Done if and only if that message carries no tool request, and the tools
\* node is due if and only if it carries one.
C1_DoneIffNoRequests ==
    (trace # <<>> /\ Last(trace) = "agent" /\ pc # "raised")
        => /\ Last(messages).type = "ai"
           /\ pc = "END" <=> Last(messages).tool_calls = <<>>
           /\ pc = "tools" <=> Last(messages).tool_calls # <<>>

\* C1 witness: the loop is in Done after a tool round, on a request-free message.
C1_Witness ==
    /\ pc = "END"
    /\ Len(trace) = 3
    /\ Last(messages).type = "ai"
    /\ Last(messages).tool_calls = <<>>

\* C2: a ToolTurn triggered by k requests appends exactly k tool results, the
\* i-th carrying the correlation id of the i-th request, and nothing else.
C2_OneResultPerRequest ==
    [][(pc = "tools" /\ pc' = "agent")
        => LET calls == Last(messages).tool_calls
               n == Len(messages)
           IN  /\ Len(calls) >= 1
               /\ Len(messages') = n + Len(calls)
               /\ SubSeq(messages', 1, n) = messages
               /\ \A i \in 1..Len(calls) :
                    /\ messages'[n + i].type = "tool"
                    /\ messages'[n + i].tool_call_id = calls[i].id
                    /\ messages'[n + i].name = calls[i].name]_vars

\* C2 witness: a ToolTurn has just answered two requests of different tools.
C2_Witness ==
    /\ trace # <<>> /\ Last(trace) = "tools" /\ pc = "agent"
    /\ Len(messages) >= 5
    /\ messages[Len(messages) - 2].type = "ai"
    /\ Len(messages[Len(messages) - 2].tool_calls) = 2
    /\ messages[Len(messages) - 1].type = "tool"
    /\ Last(messages).type = "tool"
    /\ messages[Len(messages) - 1].name # Last(messages).name

\* C3: the nodes run in strict alternation starting with the agent node; the
\* tools node runs only after the agent node and hands over to it; Done is
\* entered only from the agent node.
C3_StrictAlternation ==
    /\ trace # <<>> => trace[1] = "agent"
    /\ \A i \in 1..(Len(trace) - 1) : trace[i] # trace[i + 1]
    /\ pc = "END" => (trace # <<>> /\ Last(trace) = "agent")
    /\ pc = "tools" => (trace # <<>> /\ Last(trace) = "agent")
    /\ (trace # <<>> /\ Last(trace) = "tools" /\ pc # "raised") => pc = "agent"
    /\ trace = <<>> => pc = "agent"

\* C3 witness: a run of two tool rounds has ended in Done.
C3_Witness ==
    /\ pc = "END"
    /\ trace = <<"agent", "tools", "agent", "tools", "agent">>

\* C4: every tool-result message answers a request of an assistant message
\* that stands earlier in the sequence.
C4_ResultsAnswerEarlierRequests ==
    \A i \in 1..Len(messages) :
        messages[i].type = "tool"
            => \E j \in 1..(i - 1) :
                /\ messages[j].type = "ai"
                /\ \E c \in 1..Len(messages[j].tool_calls) :
                    messages[j].tool_calls[c].id = messages[i].tool_call_id

\* C4 witness: a finished conversation holds tool results of two rounds.
C4_Witness ==
    /\ pc = "END"
    /\ Cardinality({i \in 1..Len(messages) : messages[i].type = "tool"}) >= 3

\* An assistant message without tool requests is the last message and the
\* loop is in Done.
FirstAnswerEnds ==
    \A i \in 1..Len(messages) :
        (messages[i].type = "ai" /\ messages[i].tool_calls = <<>>)
            => (i = Len(messages) /\ pc = "END")

\* C5: when no model or tool call raises, the loop reaches Done; it is in
\* Done as soon as the model has returned a request-free message, and that
\* message is the last one.
C5_ReachesDoneAtFirstAnswer ==
    /\ [](pc # "raised") => <>(pc = "END")
    /\ []FirstAnswerEnds

\* C5 witness: Done reached on the first request-free message, after two rounds
\* in which the model asked for tools.
C5_Witness ==
    /\ pc = "END"
    /\ AgentTurns = 3
    /\ Cardinality({i \in 1..Len(messages) :
                      messages[i].type = "ai" /\ messages[i].tool_calls = <<>>}) = 1

\* C6 (as claimed): when a tool function fails in a ToolTurn, the loop is not
\* aborted: the turn appends an error-text result for that request and the
\* agent node is due.
C6_ToolFailureNeverAborts ==
    (trace # <<>> /\ Last(trace) = "tools" /\ \E i \in 1..Len(toolLog) : toolLog[i].raised)
        => /\ pc = "agent"
           /\ \A i \in 1..Len(toolLog) :
                toolLog[i].raised
                    => LET m == messages[Len(messages) - Len(toolLog) + i]
                       IN  m.type = "tool" /\ m.content \in ErrorTexts

\* C7 (as claimed): the knowledge-base tool and the web search tool never
\* raise; a backend failure comes back as text.
C7_SearchToolsNeverRaise ==
    \A i \in 1..Len(toolLog) :
        toolLog[i].name \in {"search_knowledge_base", "search_web"} => ~toolLog[i].raised

\* C8: the SQL tool never raises; a failure in any phase comes back as one of
\* its two error texts.
C8_SqlToolNeverRaises ==
    sqlPc = "tool"
        => /\ ~sqlOut.r.raised
           /\ sqlOut.r.kind \in {"generation_error", "execution_error", "success"}
           /\ sqlOut.fail # "none" => sqlOut.r.kind \in {"generation_error", "execution_error"}

\* C8 witness: the tool has run with get_sql_service() failing and has
\* returned the generation error text.
C8_Witness ==
    /\ sqlPc = "tool"
    /\ sqlOut.fail = "get_sql_service"
    /\ sqlOut.r.kind = "generation_error"

\* The generated statement does not begin with SELECT after cleaning,
\* stripping and case folding.
NotSelect(content) == ~startswith_SELECT(strip(clean_sql(content)))

\* C9 (as claimed): in read-only mode a statement that does not begin with
\* SELECT opens no connection and executes nothing, and the SQL tool returns
\* the policy-violation error together with the generated query.
C9_GateReportsPolicyViolation ==
    /\ (sqlPc = "direct" /\ sqlIn.read_only /\ ~startswith_SELECT(strip(sqlIn.content)))
        => (sqlOut.r.opened = 0 /\ sqlOut.r.fetched = <<>>)
    /\ (sqlPc = "tool" /\ sqlIn.read_only /\ sqlOut.fail = "none" /\ NotSelect(sqlIn.content))
        => /\ sqlOut.r.opened = 0
           /\ sqlOut.r.fetched = <<>>
           /\ sqlOut.r.kind = "execution_error"
           /\ sqlOut.r.detail = "policy_error"
           /\ sqlOut.r.query = clean_sql(sqlIn.content)

C11_RowsReportedAndCapped ==
    (sqlPc = "patched" /\ sqlOut.r.kind = "success")
        => LET n == sqlIn.db.nrows
               r == sqlOut.r
           IN  /\ r.row_count = n
               /\ Len(r.shown) = Min(n, 10)
               /\ \A i \in 1..Len(r.shown) : r.shown[i] = [no |-> i, row |-> i]
               /\ (r.more # 0) <=> (n > 10)
               /\ n > 10 => r.more = n - 10
               /\ (r.detail = "No results found.") <=> (n = 0)

\* C11 witness: a SELECT that returned 123 rows has been formatted.
C11_Witness ==
    /\ sqlPc = "patched"
    /\ sqlOut.r.kind = "success"
    /\ sqlIn.db.nrows = 123
    /\ sqlOut.r.more = 113
    /\ Len(sqlOut.r.shown) = 10

\* C12: when the model call fails at any AgentTurn, or the graph cannot be
\* built, the query operation answers with one failure, status 500 with the
\* error message as detail, and never with a success; a response once sent is
\* not replaced.
C12_FailureIsSingle500 ==
    /\ [](exc # "none" => /\ response.status \in {0, 500}
                          /\ pc \in {"raised", "failed"}
                          /\ pc = "failed" => response = HTTPException(500, exc))
    /\ [](response.status = 200 => exc = "none")
    /\ [][response # NoResponse => response' = response]_vars

\* C12 witness: the model call failed after one completed tool round and the
\* request was answered with 500.
C12_Witness ==
    /\ pc = "failed"
    /\ trace = <<"agent", "tools", "agent">>
    /\ exc = "LLMError"
    /\ response.status = 500

\* C13: a request without the field query is rejected before the loop starts:
\* the graph is neither obtained nor invoked, no model or tool call is made,
\* and it is answered with 422, which no downstream failure is.
C13_MissingQueryRejectedFirst ==
    /\ ~request.has_query
        => /\ pc \in {"received", "rejected"}
           /\ agent_graph = "None"
           /\ messages = <<>> /\ trace = <<>> /\ toolLog = <<>>
           /\ exc = "none"
           /\ pc = "rejected" => response.status = 422
    /\ response.status = 422 => ~request.has_query
    /\ exc # "none" => response.status # 422

\* C13 witness: a request without query has been answered with 422.
C13_Witness ==
    /\ pc = "rejected"
    /\ ~request.has_query
    /\ response.status = 422

\* Positions <<i, c>> of the tool requests in a message sequence.
RequestPositions(msgs) ==
    UNION {{<<i, c>> : c \in 1..Len(msgs[i].tool_calls)} :
             i \in {j \in 1..Len(msgs) : msgs[j].type = "ai"}}

\* Position p stands before position q.
Before(p, q) == p[1] < q[1] \/ (p[1] = q[1] /\ p[2] < q[2])

\* C14: tool_used of a success response holds exactly the tool names
\* requested in some assistant message, each once, in the order of their
\* first occurrence; it is empty exactly when no assistant message carried a
\* request.
C14_ToolUsedDistinctFirstSeen ==
    response.status = 200
        => LET tu == response.tool_used
               P == RequestPositions(messages)
               nameAt(p) == messages[p[1]].tool_calls[p[2]].name
               first(n) == CHOOSE p \in P :
                              /\ nameAt(p) = n
                              /\ \A q \in P : nameAt(q) = n => (q = p \/ Before(p, q))
           IN  /\ Range(tu) = {nameAt(p) : p \in P}
               /\ \A a, b \in 1..Len(tu) : a # b => tu[a] # tu[b]
               /\ \A a, b \in 1..Len(tu) : a < b => Before(first(tu[a]), first(tu[b]))
               /\ (tu = <<>>) <=> (P = {})

\* C14 witness: a response lists two tools of which one was requested in two
\* different assistant messages.
C14_Witness ==
    /\ response.status = 200
    /\ Len(response.tool_used) = 2
    /\ messages[3].tool_calls # <<>>
    /\ \E i \in 5..Len(messages) :
        /\ messages[i].type = "ai"
        /\ messages[i].tool_calls # <<>>
        /\ messages[i].tool_calls[1].name = messages[3].tool_calls[1].name

\* A run of one tool round with the single request search_knowledge_base.
ScenarioA ==
    /\ trace = <<"agent", "tools", "agent">>
    /\ Len(messages[3].tool_calls) = 1
    /\ messages[3].tool_calls[1].name = "search_knowledge_base"

\* C15: reasoning_steps is floor(number of messages of the final conversation
\* / 2); after one tool round of the single request search_knowledge_base,
\* tool_used is that one name and reasoning_steps is 2.
C15_StepsAreHalfTheMessages ==
    response.status = 200
        => /\ response.reasoning_steps * 2 <= Len(messages)
           /\ Len(messages) < response.reasoning_steps * 2 + 2
           /\ ScenarioA => /\ response.tool_used = <<"search_knowledge_base">>
                           /\ response.reasoning_steps = 2

\* C15 witness: scenario A has been answered.
C15_Witness ==
    /\ response.status = 200
    /\ ScenarioA
    /\ response.reasoning_steps = 2

\* C16 (as claimed): a query the model answers directly ends with an empty
\* tool_used, a final conversation of exactly 2 messages (user, assistant)
\* and reasoning_steps 1.
C16_DirectAnswerTwoMessages ==
    (response.status = 200 /\ trace = <<"agent">>)
        => /\ response.tool_used = <<>>
           /\ Len(messages) = 2
           /\ response.reasoning_steps = 1

\* C16 (amended): a query the model answers directly ends with an empty
\* tool_used, a final conversation of exactly 3 messages (system instruction,
\* user, assistant) and reasoning_steps 1.
C16_DirectAnswerThreeMessages ==
    (response.status = 200 /\ trace = <<"agent">>)
        => /\ response.tool_used = <<>>
           /\ Len(messages) = 3
           /\ messages[1].type = "system"
           /\ messages[2].type = "human" /\ messages[2].content = request.query
           /\ messages[3].type = "ai" /\ messages[3].content = response.answer
           /\ response.reasoning_steps = 1

\* C16 witness: a direct answer has been sent.
C16_Witness ==
    /\ response.status = 200
    /\ trace = <<"agent">>
    /\ Len(messages) = 3
    /\ response.reasoning_steps = 1

\* Identifiers of the messages a conversation has added to its seed.
AddedIds(c) == {c.messages[i].id : i \in 3..Len(c.messages)}

\* Conversation c is that of its own request and of nothing else.
Isolated(c) ==
    /\ c.tool_calls_made = 0
    /\ c.pc \in {"received", "rejected"} => c.messages = <<>>
    /\ c.messages # <<>>
        => /\ Len(c.messages) >= 2
           /\ c.messages[1].type = "system"
           /\ c.messages[2].type = "human" /\ c.messages[2].content = c.request.query
           /\ \A i \in 3..Len(c.messages) : c.messages[i].type \in {"ai", "tool"}
           /\ Len(c.messages) = 2 + (Len(c.trace) + 1) \div 2
                                  + Cardinality({i \in 1..Len(c.messages) : c.messages[i].type = "tool"})
                                  - (IF c.exc = "LLMError" THEN 1 ELSE 0)
    /\ \A i \in 1..Len(c.messages) :
        c.messages[i].type = "tool"
            => \E j \in 1..(i - 1), k \in 1..MaxCalls :
                /\ k <= Len(c.messages[j].tool_calls)
                /\ c.messages[j].tool_calls[k].id = c.messages[i].tool_call_id
    /\ c.response.status = 200
        => /\ c.response.query = c.request.query
           /\ c.response.answer = Last(c.messages).content
           /\ c.response.reasoning_steps * 2 <= Len(c.messages)
           /\ Len(c.messages) < c.response.reasoning_steps * 2 + 2
           /\ Range(c.response.tool_used)
                = UNION {{c.messages[i].tool_calls[k].name :
                            k \in 1..Len(c.messages[i].tool_calls)} : i \in 1..Len(c.messages)}

\* C17: under every interleaving of two queries that share the singleton
\* graph, each starts from the fresh state (system instruction, its own user
\* text, zero counter), holds only messages of its own run, which no other
\* conversation holds, and is answered from its own conversation alone.
C17_QueriesIsolated ==
    /\ Isolated(Running)
    /\ Isolated(parked)
    /\ AddedIds(Running) \cap AddedIds(parked) = {}

\* C17 witness: two queries of the same session ran interleaved: one was
\* answered between the model turn and the tool round of the other.
C17_Witness ==
    /\ pc = "agent" /\ parked.pc = "responded"
    /\ Len(messages) = 4 /\ Len(parked.messages) = 3
    /\ request.session_id = parked.request.session_id
    /\ request.query # parked.request.query
    /\ messages[3].id < parked.messages[3].id
    /\ parked.messages[3].id < messages[4].id

\* C18: search_knowledge_base returns the sentinel "No relevant documents
\* found in knowledge base." exactly when the vector store returns no
\* document; for N >= 1 documents its output holds N entries numbered 1..N in
\* the store's order, each with the document's filename ("unknown" when the
\* metadata has none) and its content.
C18_SentinelOrAllDocuments ==
    (kbPc = "done" /\ ~kbOut.raised)
        => LET docs == kbIn.docs
               out == kbOut.out
           IN  /\ (out.text = "No relevant documents found in knowledge base.")
                    <=> (Len(docs) = 0)
               /\ Len(out.entries) = Len(docs)
               /\ \A i \in 1..Len(docs) :
                    /\ out.entries[i].no = i
                    /\ out.entries[i].content = docs[i].page_content
                    /\ out.entries[i].filename
                         = (IF "filename" \in DOMAIN docs[i].metadata
                            THEN docs[i].metadata.filename ELSE "unknown")

\* C18 witness: three documents were formatted, the second without a filename
\* and the others from different files.
C18_Witness ==
    /\ kbPc = "done" /\ ~kbOut.raised
    /\ Len(kbIn.docs) = 3
    /\ kbOut.out.entries[1].filename = "b.pdf"
    /\ kbOut.out.entries[2].filename = "unknown"
    /\ kbOut.out.entries[3].filename = "a.pdf"
    /\ kbOut.out.entries[3].no = 3

\* C19 (as claimed): with a reachable database and a model that generates a
\* SELECT, one invocation of the SQL tool through the SQLService passes schema
\* fetch, generation, gate and execution and returns "Query executed
\* successfully", not an error text.
C19_SelectThroughServiceSucceeds ==
    (/\ sqlPc = "tool"
     /\ sqlOut.fail = "none"
     /\ sqlIn.db.url /\ sqlIn.db.connectOK /\ sqlIn.db.fetchOK
     /\ startswith_SELECT(strip(clean_sql(sqlIn.content))))
        => /\ sqlOut.r.kind = "success"
           /\ sqlOut.r.fetched = <<clean_sql(sqlIn.content)>>

\* C20 (as claimed): when the loop of a query has reached Done and the query
\* has been answered, its Analytics Summary has been handed to the recorder
\* exactly once: one row of agent_queries per completed query.
C20_SummaryRecordedOnce ==
    pc = "responded" => agent_queries = 1

\* C21: the conversation is append-only: at every step of the loop the
\* message sequence before the step is a prefix of the sequence after it.
C21_AppendOnly ==
    [][/\ Len(messages') >= Len(messages)
       /\ SubSeq(messages', 1, Len(messages)) = messages
       /\ (pc = "agent" /\ pc' # "raised") => Len(messages') = Len(messages) + 1
       /\ (pc = "tools" /\ pc' # "raised") => Len(messages') > Len(messages)]_vars

\* C21 witness: a conversation of two tool rounds, the second with two
\* requests, has grown to its final answer.
C21_Witness ==
    /\ pc = "END"
    /\ Len(messages) = 8
    /\ messages[1].type = "system" /\ messages[2].type = "human"
    /\ messages[6].type = "tool" /\ messages[7].type = "tool"

\* C22: a request of an unregistered tool name is a tool-level error: it
\* never makes the tools node fail (a failing step has a registered tool that
\* raised; a step with unregistered names only always completes), and the
\* completed ToolTurn appends for it one tool result with the request's
\* correlation id and error text, after which the agent node is due.
C22_UnknownToolIsErrorResult ==
    [][pc = "tools"
        => LET calls == Last(messages).tool_calls
               n == Len(messages)
               unknown == {i \in 1..Len(calls) : calls[i].name \notin Range(get_tools)}
           IN  /\ pc' = "raised"
                    => \E i \in 1..Len(toolLog') :
                        toolLog'[i].raised /\ toolLog'[i].name \in Range(get_tools)
               /\ unknown = 1..Len(calls) => pc' = "agent"
               /\ pc' = "agent"
                    => /\ Len(messages') = n + Len(calls)
                       /\ \A i \in unknown :
                            /\ messages'[n + i].type = "tool"
                            /\ messages'[n + i].tool_call_id = calls[i].id
                            /\ messages'[n + i].status = "error"
                            /\ messages'[n + i].content \in ErrorTexts]_vars

\* C22 witness: a ToolTurn has answered a request of an unregistered name
\* with an error result and the agent node is due.
C22_Witness ==
    /\ pc = "agent"
    /\ trace = <<"agent", "tools">>
    /\ Len(messages) = 4
    /\ messages[3].tool_calls[1].name = "unknown_tool"
    /\ messages[4].type = "tool"
    /\ messages[4].tool_call_id = messages[3].tool_calls[1].id
    /\ messages[4].content = "Error: not a valid tool"

\* C23: whatever the order in which the sibling tool executions of one
\* assistant message finish, the tools node appends the same results, the
\* i-th being that of the i-th request, and the agent node does not run
\* before all of them have been appended.
C23_SiblingOrderIrrelevant ==
    [][pc = "gathering"
        => LET calls == Last(messages).tool_calls
               n == Len(messages)
           IN  /\ pc' \in {"gathering", "agent", "raised"}
               /\ pc' # "agent" => messages' = messages
               /\ pc' = "agent"
                    => /\ Range(tasks.done) = 1..Len(calls)
                       /\ Len(messages') = n + Len(calls)
                       /\ SubSeq(messages', 1, n) = messages
                       /\ \A i \in 1..Len(calls) :
                            /\ messages'[n + i].tool_call_id = calls[i].id
                            /\ messages'[n + i].name = calls[i].name
                            /\ messages'[n + i] = run_one(calls[i], tasks.envs[i], nextId + i - 1)]_vars

\* C23 witness: two sibling requests of different tools finished in reverse
\* order and their results stand in request order.
C23_Witness ==
    /\ pc = "agent"
    /\ trace = <<"agent", "tools">>
    /\ tasks.done = <<2, 1>>
    /\ Len(messages) = 5
    /\ messages[3].tool_calls[1].name # messages[3].tool_calls[2].name
    /\ messages[4].tool_call_id = messages[3].tool_calls[1].id
    /\ messages[5].tool_call_id = messages[3].tool_calls[2].id

\* Number of assistant messages that carry a tool request.
RequestingTurns == Cardinality({i \in 1..Len(messages) : messages[i].tool_calls # <<>>})

\* Number of complete AgentTurn/ToolTurn cycles run so far.
CompleteCycles == Len(SelectSeq(trace, LAMBDA n : n = "tools"))

\* C24 (as claimed): the loop has no iteration cap: as long as the model has
\* requested a tool at each of its turns the loop is not stopped; it ends only
\* in Done or on a failing model or tool call.
C24_NoIterationCap ==
    /\ pc = "raised" => exc \in {"LLMError", "BackendError", "ProviderError"}
    /\ (pc = "agent" /\ trace # <<>>) => CompleteCycles = RequestingTurns

\* C24 (amended): the loop has no cap of its own, but the graph runner stops
\* a run at its limit of recursion_limit node steps.  Below the limit the loop
\* is never stopped: when the model has requested a tool at each of its turns,
\* all those cycles are complete or the last one is due.  At the limit a run
\* that still has a node due ends with GraphRecursionError, after 12 complete
\* cycles and a 13th requesting turn, and does not reach Done.
C24_CappedByRecursionLimit ==
    /\ [](/\ Len(trace) <= recursion_limit
          /\ (pc = "agent" /\ trace # <<>>) => CompleteCycles = RequestingTurns
          /\ pc = "tools" => CompleteCycles + 1 = RequestingTurns
          /\ exc = "GraphRecursionError"
                => /\ pc = "raised"
                   /\ Len(trace) = recursion_limit
                   /\ CompleteCycles = 12
                   /\ RequestingTurns = 13)
    /\ [][(pc \in {"agent", "tools"} /\ Len(trace) = recursion_limit)
            => (pc' = "raised" /\ exc' = "GraphRecursionError")]_vars
    /\ [][(pc = "tools" /\ Len(trace) < recursion_limit) => pc' = "agent"]_vars

\* C24 witness: the model requested a tool at each of 13 turns; 12 cycles
\* were completed and the run was then ended by the step limit.
C24_Witness ==
    /\ pc = "raised"
    /\ exc = "GraphRecursionError"
    /\ CompleteCycles = 12
    /\ RequestingTurns = 13

\* C25: once the graph is built, the tools described to the model and the
\* tools the ToolNode dispatches are the same ordered list
\* search_knowledge_base, search_web, sql_query_generator, whatever the value
\* of sql_tool_enabled; a request for sql_query_generator is never answered as
\* a request for a tool that is not registered.
C25_ToolSetStaticAndAgreed ==
    /\ agent_graph = "compiled" =>
          /\ graph_tools.llm_tools = graph_tools.node_tools
          /\ graph_tools.node_tools =
                <<"search_knowledge_base", "search_web", "sql_query_generator">>
    /\ \A i \in 1..Len(messages) :
          (messages[i].type = "tool" /\ messages[i].name \in Range(graph_tools.node_tools))
              => messages[i].content # "Error: not a valid tool"

C25_Witness ==
    /\ pc = "responded"
    /\ ~settings.sql_tool_enabled
    /\ graph_tools.llm_tools = get_tools
    /\ \E i \in 1..Len(messages) :
          /\ messages[i].type = "tool"
          /\ messages[i].name = "sql_query_generator"
          /\ messages[i].status = "success"

\* C26: every connection opened by the schema fetch, by the query execution
\* (called directly or through the SQL tool) or by the analytics endpoint is
\* closed before that operation returns, on its success path and on every
\* failure path; after any sequence of these operations no connection is open.
C26_ConnectionsClosed ==
    /\ open_connections = 0
    /\ sqlPc \in {"tool", "direct", "patched", "schema", "analytics"} =>
          sqlOut.r.closed = sqlOut.r.opened

C26_Witness ==
    /\ sqlPc = "analytics"
    /\ sqlOut.r.raised
    /\ sqlOut.r.opened = 1
    /\ sqlOut.r.closed = 1
    /\ open_connections = 0

\* Number of tool requests executed so far: one tool result per request.
ExecutedRequests == Len(SelectSeq(messages, LAMBDA m : m.type = "tool"))

\* C27: between turns and at Done, tool_calls_made equals the number of tool
\* requests executed so far; at Done that is the number of tool requests in
\* all assistant messages.
C27_CounterCountsRequests ==
    pc \in {"agent", "END"} => tool_calls_made = ExecutedRequests

\* C28: every success response echoes the query of the request and carries
\* as answer the content of the last message of the final conversation; that
\* message is an assistant message without tool requests, never a tool result
\* and never an assistant message that requests tools.
C28_AnswerIsFinalAssistantMessage ==
    pc = "responded" =>
        /\ response.status = 200
        /\ response.query = request.query
        /\ \A i \in 1..Len(messages) :
              i = Len(messages) =>
                  /\ response.answer = messages[i].content
                  /\ messages[i].type = "ai"
                  /\ messages[i].tool_calls = <<>>
        /\ \A i \in 1..(Len(messages) - 1) : messages[i].content # response.answer

C28_Witness ==
    /\ pc = "responded"
    /\ request.query = "q2"
    /\ response.query = "q2"
    /\ Len(messages) > 3
    /\ messages[3].tool_calls # <<>>
    /\ messages[Len(messages) - 1].type = "tool"
    /\ response.answer = messages[Len(messages)].content

\* ------------------------------------------------- a tool that does not return
\* The tools node runs and the call of a registered tool never returns: the
\* tool functions await their backend without a timeout and the ToolNode
\* awaits all of them, so the node does not complete and nothing is written.
ToolHang ==
    /\ pc = "tools"
    /\ \E i \in 1..Len(Last(messages).tool_calls) :
          Last(messages).tool_calls[i].name \in Range(get_tools)
    /\ pc' = "waiting"
    /\ trace' = Append(trace, "tools")
    /\ UNCHANGED <<messages, tool_calls_made, toolLog, nextId, handle_tool_errors,
                   sqlVars, kbVars, tasks, httpVars, settings, graph_tools, open_connections>>

HangNext == GatherAgentTurn \/ AgentFault \/ ToolTurn \/ ToolFault \/ ToolHang

\* The graph runner runs the node that is due; a call that returns lets the
\* node complete.
HangSpec == Init /\ [][HangNext]_vars /\ WF_vars(GatherAgentTurn) /\ WF_vars(ToolTurn)

\* C29: a tool call that does not return does not block the loop: the tools
\* step eventually appends an error-text result for the request and the loop
\* goes on to the next agent turn.
C29_TimedOutCallDegrades ==
    (pc = "waiting") ~>
        (/\ pc = "agent"
         /\ Last(messages).type = "tool"
         /\ Last(messages).content \in ErrorTexts)

\* C30: for a query whose answer has n rows, execute_query returns as results
\* exactly min(n, 100) rows, namely the first ones in the database's order,
\* and as row_count the number n of rows before truncation.
C30_FirstRowsKeptCountUntruncated ==
    (sqlPc = "direct" /\ sqlOut.r.kind = "success") =>
        LET n == sqlIn.db.nrows
            r == sqlOut.r
        IN  /\ Len(r.results) = (IF n <= 100 THEN n ELSE 100)
            /\ \A i \in 1..Len(r.results) : r.results[i] = i
            /\ r.row_count = n

C30_Witness ==
    /\ sqlPc = "direct"
    /\ sqlOut.r.kind = "success"
    /\ sqlIn.db.nrows = 123
    /\ Len(sqlOut.r.results) = 100
    /\ sqlOut.r.results[100] = 100
    /\ sqlOut.r.row_count = 123

====
